---- MODULE Spec2Model ----
\* Verification model of the ing package:
\*   ing/fit/models.py       Model: params / is_positive / exact_density / derivatives
\*   ing/fit/cir.py          CIR(Model)
\*   ing/optm/minimizer.py   Result, ScipyMinimizer
\*   ing/utils/data_utils.py mean_squared_error, expected_time_to_target
EXTENDS Integers, Sequences, FiniteSets, TLC

VARIABLES
    \* ---- one Model instance and the arrays its caller holds ----
    cls,        \* class of the instance: "Base", "Sub" or "CIR"
    hasExact,   \* self._has_exact_density
    simMethod,  \* self._default_sim_method
    params,     \* self._params: NoneRef, or a reference to an array of the heap
    positive,   \* self._positive
    heap,       \* contents of the numpy arrays, by reference
    op,         \* the operation performed last
    ret,        \* its outcome: a returned value or a raised exception
    \* ---- one ScipyMinimizer instance ----
    mz,         \* [method, tol, options]: self._method, self._tol, self._options
    zop,        \* the arguments of the last call of minimize
    zres,       \* what scipy.optimize.minimize answered in that call
    zret,       \* the outcome of that call
    ncalls,     \* how often that call invoked scipy.optimize.minimize
    seen,       \* one earlier call of minimize: its arguments and outcome
    \* ---- data_utils: the last call of a function and its outcome ----
    fop,
    fargs,
    fret

mvars == <<cls, hasExact, simMethod, params, positive, heap, op, ret>>
zvars == <<mz, zop, zres, zret, ncalls, seen>>
fvars == <<fop, fargs, fret>>
vars == <<mvars, zvars, fvars>>

\* --------------------------------------------------------------------------
\* Bounds
\* --------------------------------------------------------------------------
NumVecs == 2                \* arrays the caller holds
ParamVals == {0, 1}         \* values of a parameter
XVals == {0, 1}             \* states x, in units of the step h
DensityArgs == {1, 2}       \* x0, xt of exact_density

\* --------------------------------------------------------------------------
\* Outcomes of a call
\* --------------------------------------------------------------------------
Return(v) == [kind |-> "return", val |-> v]
Raise(e) == [kind |-> "raise", val |-> e]
NoCall == [kind |-> "none", val |-> "none"]

\* --------------------------------------------------------------------------
\* ing/fit/models.py, ing/fit/cir.py
\* --------------------------------------------------------------------------
NoneRef == 0
Refs == 1..NumVecs
NParams == 3
Vecs == {<<>>} \cup [1..NParams -> ParamVals]

\* "Base": a concrete subclass that inherits every method body of Model.
\* "Sub":  a subclass that overrides _set_is_positive with a parameter-dependent
\*         test, as the docstring of Model._set_is_positive invites.
\* "CIR":  ing.fit.cir.CIR.
Classes == {"Base", "Sub", "CIR"}
SimMethods == {"Milstein", "Euler"}

\* Model._set_is_positive and its overrides, applied to the array contents v.
SetIsPositive(c, v) ==
    CASE c = "CIR" -> Return(TRUE)
      [] c = "Base" -> Return(FALSE)
      [] c = "Sub" -> IF Len(v) < NParams
                      THEN Raise("IndexError")
                      ELSE Return(2 * v[1] * v[2] >= v[3] * v[3])

\* params.setter with the two assignments in the wrong order.
ParamsSetterEager(c, r, h, p, pos) ==
    LET out == SetIsPositive(c, h[r]) IN
    IF out.kind = "raise"
    THEN [params |-> r, positive |-> pos, ret |-> out]
    ELSE [params |-> r, positive |-> out.val, ret |-> Return("None")]

\* params.setter testing the vector stored before instead of the new one.
ParamsSetterStale(c, r, h, p, pos) ==
    LET out == IF p = NoneRef THEN Return(pos) ELSE SetIsPositive(c, h[p]) IN
    IF out.kind = "raise"
    THEN [params |-> p, positive |-> pos, ret |-> out]
    ELSE [params |-> r, positive |-> out.val, ret |-> Return("None")]

\* params.setter: self._positive = self._set_is_positive(params=vals), then
\* self._params = vals. An exception of the predicate leaves both untouched.
ParamsSetter(c, r, h, p, pos) ==
    LET out == SetIsPositive(c, h[r]) IN
    IF out.kind = "raise"
    THEN [params |-> p, positive |-> pos, ret |-> out]
    ELSE [params |-> r, positive |-> out.val, ret |-> Return("None")]

\* self._params[i] (0-based i) on the stored array.
ParamAt(p, h, i) ==
    IF p = NoneRef THEN Raise("TypeError")
    ELSE IF Len(h[p]) <= i THEN Raise("IndexError")
    ELSE Return(h[p][i + 1])

\* drift(x, t): abstract in Model, kappa * (mu - x) in CIR.
Drift(c, p, h, x, t) ==
    IF c # "CIR" THEN Raise("NotImplementedError")
    ELSE LET k == ParamAt(p, h, 0)
             m == ParamAt(p, h, 1) IN
         IF k.kind = "raise" THEN k
         ELSE IF m.kind = "raise" THEN m
         ELSE Return(k.val * (m.val - x))

\* diffusion(x, t): abstract in Model, sigma * np.sqrt(x) in CIR. The square root
\* is kept symbolic: the value is sigma times the root of x, and nan for x < 0.
Diffusion(c, p, h, x, t) ==
    IF c # "CIR" THEN Raise("NotImplementedError")
    ELSE LET s == ParamAt(p, h, 2) IN
         IF s.kind = "raise" THEN s
         ELSE Return([coef |-> s.val, sqrt_of |-> x, nan |-> x < 0])

\* exact_density with a default body that returns a density instead of raising.
ExactDensityLenient(c, p, h, x0, xt, t0, dt) ==
    IF p = NoneRef THEN Raise("TypeError")
    ELSE IF Len(h[p]) # NParams THEN Raise("ValueError")
    ELSE Return([density_of |-> h[p], x0 |-> x0, xt |-> xt, dt |-> dt])

\* exact_density(x0, xt, t0, dt): raises in Model; CIR unpacks its three
\* parameters and evaluates the closed formula, whose value is kept symbolic
\* (the parameters and arguments it is evaluated at).
ExactDensity(c, p, h, x0, xt, t0, dt) ==
    IF c # "CIR" THEN Raise("NotImplementedError")
    ELSE IF p = NoneRef THEN Raise("TypeError")
    ELSE IF Len(h[p]) # NParams THEN Raise("ValueError")
    ELSE Return([density_of |-> h[p], x0 |-> x0, xt |-> xt, dt |-> dt])

\* exact_step(t, dt, x, dZ): raises in Model, not overridden by CIR.
ExactStep(c, t, dt, x, dZ) == Raise("NotImplementedError")

\* The step of the numerical derivatives. x, t and the long-run mean are counted
\* in units of h, which makes the difference quotients exact.
H == 1

\* drift_x = (drift(x + h, t) - drift(x - h, t)) / (2 * h)
DriftX(c, p, h, x, t) ==
    LET a == Drift(c, p, h, x + H, t)
        b == Drift(c, p, h, x - H, t) IN
    IF a.kind = "raise" THEN a
    ELSE IF b.kind = "raise" THEN b
    ELSE Return((a.val - b.val) \div (2 * H))

\* drift_t = (drift(x, t + h) - drift(x, t)) / h; CIR overrides it with 0.0.
DriftT(c, p, h, x, t) ==
    IF c = "CIR" THEN Return(0)
    ELSE LET a == Drift(c, p, h, x, t + H)
             b == Drift(c, p, h, x, t) IN
         IF a.kind = "raise" THEN a
         ELSE IF b.kind = "raise" THEN b
         ELSE Return((a.val - b.val) \div H)

\* drift_xx = (drift(x + h, t) - 2 * drift(x, t) + drift(x - h, t)) / (h * h)
DriftXX(c, p, h, x, t) ==
    LET a == Drift(c, p, h, x + H, t)
        b == Drift(c, p, h, x, t)
        d == Drift(c, p, h, x - H, t) IN
    IF a.kind = "raise" THEN a
    ELSE IF b.kind = "raise" THEN b
    ELSE IF d.kind = "raise" THEN d
    ELSE Return((a.val - 2 * b.val + d.val) \div (H * H))

\* A difference quotient of diffusion values, kept symbolic as its weighted
\* terms and its divisor; nan as soon as one term is nan.
Quotient(terms, divisor) ==
    Return([terms |-> terms, over |-> divisor,
            nan |-> \E i \in 1..Len(terms) : terms[i][2].nan])

\* diffusion_x = (diffusion(x + h, t) - diffusion(x - h, t)) / (2 * h)
DiffusionX(c, p, h, x, t) ==
    LET a == Diffusion(c, p, h, x + H, t)
        b == Diffusion(c, p, h, x - H, t) IN
    IF a.kind = "raise" THEN a
    ELSE IF b.kind = "raise" THEN b
    ELSE Quotient(<<<<1, a.val>>, <<-1, b.val>>>>, 2 * H)

\* diffusion_xx = (diffusion(x + h, t) - 2 * diffusion(x, t)
\*                 + diffusion(x - h, t)) / (h * h)
DiffusionXX(c, p, h, x, t) ==
    LET a == Diffusion(c, p, h, x + H, t)
        b == Diffusion(c, p, h, x, t)
        d == Diffusion(c, p, h, x - H, t) IN
    IF a.kind = "raise" THEN a
    ELSE IF b.kind = "raise" THEN b
    ELSE IF d.kind = "raise" THEN d
    ELSE Quotient(<<<<1, a.val>>, <<-2, b.val>>, <<1, d.val>>>>, H * H)

\* ---- construction ----
\* Model.__init__(has_exact_density, default_sim_method); CIR.__init__ passes
\* has_exact_density=True and keeps the default method.
ModelInit ==
    /\ cls \in Classes
    /\ hasExact \in (IF cls = "CIR" THEN {TRUE} ELSE BOOLEAN)
    /\ simMethod \in (IF cls = "CIR" THEN {"Milstein"} ELSE SimMethods)
    /\ params = NoneRef
    /\ positive = FALSE
    /\ heap \in [Refs -> Vecs]
    /\ op = "init"
    /\ ret = NoCall

\* ---- operations ----
Frame == UNCHANGED <<cls, hasExact, simMethod, heap>>

\* model.params = vals
SetParams ==
    \E r \in Refs :
        LET out == ParamsSetter(cls, r, heap, params, positive) IN
        /\ params' = out.params
        /\ positive' = out.positive
        /\ op' = "params.setter"
        /\ ret' = out.ret
        /\ Frame

\* model.params
GetParams ==
    /\ op' = "params"
    /\ ret' = Return(params)
    /\ UNCHANGED <<params, positive>>
    /\ Frame

\* is_positive recomputed from the stored vector at every read.
GetIsPositiveRecomputing ==
    LET out == IF params = NoneRef THEN Return(positive)
               ELSE SetIsPositive(cls, heap[params]) IN
    /\ op' = "is_positive"
    /\ positive' = IF out.kind = "raise" THEN positive ELSE out.val
    /\ ret' = IF out.kind = "raise" THEN out ELSE Return(out.val)
    /\ UNCHANGED params
    /\ Frame

\* model.is_positive
GetIsPositive ==
    /\ op' = "is_positive"
    /\ ret' = Return(positive)
    /\ UNCHANGED <<params, positive>>
    /\ Frame

\* model.has_exact_density
GetHasExactDensity ==
    /\ op' = "has_exact_density"
    /\ ret' = Return(hasExact)
    /\ UNCHANGED <<params, positive>>
    /\ Frame

\* model.default_sim_method
GetDefaultSimMethod ==
    /\ op' = "default_sim_method"
    /\ ret' = Return(simMethod)
    /\ UNCHANGED <<params, positive>>
    /\ Frame

\* A call that only reads the instance.
Query(name, out) ==
    /\ op' = name
    /\ ret' = out
    /\ UNCHANGED <<params, positive>>
    /\ Frame

CallDrift == \E x \in XVals : Query("drift", Drift(cls, params, heap, x, 0))
CallDiffusion == \E x \in XVals : Query("diffusion", Diffusion(cls, params, heap, x, 0))
CallExactDensity ==
    \E x0 \in DensityArgs, xt \in DensityArgs :
        Query("exact_density", ExactDensity(cls, params, heap, x0, xt, 0, 1))
CallExactStep == \E x \in XVals : Query("exact_step", ExactStep(cls, 0, 1, x, 0))
CallDriftX == \E x \in XVals : Query("drift_x", DriftX(cls, params, heap, x, 0))
CallDriftT == \E x \in XVals : Query("drift_t", DriftT(cls, params, heap, x, 0))
CallDriftXX == \E x \in XVals : Query("drift_xx", DriftXX(cls, params, heap, x, 0))
CallDiffusionX == \E x \in XVals : Query("diffusion_x", DiffusionX(cls, params, heap, x, 0))
CallDiffusionXX == \E x \in XVals : Query("diffusion_xx", DiffusionXX(cls, params, heap, x, 0))

\* The caller writes one element of an array it holds: one it passed to the
\* setter or got from the getter (the setter stores, and the getter returns, the
\* array itself, not a copy), or another one.
CallerWrite ==
    \E r \in Refs :
        \E i \in 1..Len(heap[r]), v \in ParamVals :
            /\ v # heap[r][i]
            /\ heap' = [heap EXCEPT ![r][i] = v]
            /\ op' = "caller_write"
            /\ ret' = NoCall
            /\ UNCHANGED <<cls, hasExact, simMethod, params, positive>>

\* --------------------------------------------------------------------------
\* ing/optm/minimizer.py
\* --------------------------------------------------------------------------
MaxTarget == 3              \* objectives f_c(p) = (p - c)^2, c in 0..MaxTarget
MaxGuess == 1               \* initial guesses 0..MaxGuess
MaxIter == 2                \* iteration caps 1..MaxIter passed as options

Objectives == 0..MaxTarget
Guesses == {<<>>} \cup {<<g>> : g \in 0..MaxGuess}      \* <<>> is guess=None
BoundsArgs == {<<>>, << <<0, 1>> >>}                    \* <<>> is bounds=None
Methods == {"trust-constr", "SLSQP"}
Tols == {"5e-03", "1e-06"}

\* The options used when the constructor gets none (or an empty mapping).
DefaultOptions == [maxiter |-> 500, gtol |-> "1e-06", xtol |-> "1e-04", verbose |-> 1]
OptionArgs == {<<>>} \cup {[maxiter |-> k] : k \in 1..MaxIter}  \* <<>> is options=None

\* ScipyMinimizer.__init__(method, tol, options)
NewScipyMinimizer(method, tol, options) ==
    [method |-> method, tol |-> tol,
     options |-> IF options = <<>> THEN DefaultOptions ELSE options]

\* Result(params, value, success, message)
Result(ps, value, success, message) ==
    [params |-> ps, value |-> value, success |-> success, message |-> message]

Min(a, b) == IF a <= b THEN a ELSE b
Max(a, b) == IF a >= b THEN a ELSE b
Clip(v, bounds) == IF bounds = <<>> THEN v ELSE Max(bounds[1][1], Min(bounds[1][2], v))

\* scipy.optimize.minimize, the library routine behind ScipyMinimizer: a
\* deterministic stand-in on one integer parameter. It walks from the guess
\* towards the minimum of f_c within the bounds, one unit per iteration, for at
\* most options.maxiter iterations, and reports whether it got there. Without a
\* guess it raises.
ScipyMinimize(fn, x0, tol, method, bounds, options) ==
    IF x0 = <<>> THEN Raise("ValueError")
    ELSE LET start == Clip(x0[1], bounds)
             goal == Clip(fn, bounds)
             need == IF goal >= start THEN goal - start ELSE start - goal
             done == Min(need, options.maxiter)
             x == IF goal >= start THEN start + done ELSE start - done
         IN Return([x |-> <<x>>, fun |-> (x - fn) * (x - fn),
                    success |-> need <= options.maxiter,
                    message |-> IF need <= options.maxiter
                                THEN "Optimization terminated successfully."
                                ELSE "The maximum number of function evaluations is exceeded."])

\* minimize that calls the routine again from the point reached when the first
\* call did not converge.
MinimizeRetrying(m, fn, bounds, guess) ==
    LET res == ScipyMinimize(fn, guess, m.tol, m.method, bounds, m.options)
        again == ScipyMinimize(fn, res.val.x, m.tol, m.method, bounds, m.options) IN
    IF res.kind = "raise"
    THEN [mz |-> m, calls |-> 1, res |-> res, ret |-> res]
    ELSE IF res.val.success
    THEN [mz |-> m, calls |-> 1, res |-> res,
          ret |-> Return(Result(res.val.x, res.val.fun, res.val.success, res.val.message))]
    ELSE [mz |-> m, calls |-> 2, res |-> res,
          ret |-> Return(Result(again.val.x, again.val.fun, again.val.success,
                                again.val.message))]

\* minimize that charges the iterations it used to the stored options.
MinimizeSpending(m, fn, bounds, guess) ==
    LET res == ScipyMinimize(fn, guess, m.tol, m.method, bounds, m.options) IN
    IF res.kind = "raise"
    THEN [mz |-> m, calls |-> 1, res |-> res, ret |-> res]
    ELSE [mz |-> [m EXCEPT !.options.maxiter = Max(1, @ - 1)],
          calls |-> 1, res |-> res,
          ret |-> Return(Result(res.val.x, res.val.fun, res.val.success, res.val.message))]

\* ScipyMinimizer.minimize(function, bounds, guess): one call of the routine with
\* the stored tolerance, method and options; its x, fun, success and message
\* become the Result. An exception of the routine propagates.
\* mz: the instance afterwards; calls: invocations of the routine; res: what the
\* routine answered; ret: the outcome of minimize.
Minimize(m, fn, bounds, guess) ==
    LET res == ScipyMinimize(fn, guess, m.tol, m.method, bounds, m.options) IN
    IF res.kind = "raise"
    THEN [mz |-> m, calls |-> 1, res |-> res, ret |-> res]
    ELSE [mz |-> m, calls |-> 1, res |-> res,
          ret |-> Return(Result(res.val.x, res.val.fun, res.val.success, res.val.message))]

CallArgs == [fn : Objectives, bounds : BoundsArgs, guess : Guesses]
NoArgs == [fn |-> 0, bounds |-> <<>>, guess |-> <<>>]

MinInit ==
    /\ mz \in {NewScipyMinimizer(m, t, o) : m \in Methods, t \in Tols, o \in OptionArgs}
    /\ zop = NoArgs
    /\ zres = NoCall
    /\ zret = NoCall
    /\ ncalls = 0
    /\ seen = [args |-> NoArgs, ret |-> NoCall]

\* minimizer.minimize(function, bounds, guess). seen keeps one earlier call to
\* compare later ones with: the one it held, or the call before this one.
CallMinimize ==
    \E a \in CallArgs :
        LET out == Minimize(mz, a.fn, a.bounds, a.guess) IN
        /\ mz' = out.mz
        /\ zop' = a
        /\ zres' = out.res
        /\ zret' = out.ret
        /\ ncalls' = out.calls
        /\ seen' \in {seen, [args |-> zop, ret |-> zret]}

\* --------------------------------------------------------------------------
\* ing/utils/data_utils.py
\* --------------------------------------------------------------------------
MaxLen == 3                 \* length of the sequences
ElemVals == {1, 2, 3, 4}    \* their elements, and the target levels

Seqs == UNION {[1..n -> ElemVals] : n \in 0..MaxLen}

\* sum((x_1[i] - x_2[i]) ** 2 for i in range(n)), accumulated in index order.
RECURSIVE SumSquares(_, _, _)
SumSquares(x_1, x_2, n) ==
    IF n = 0 THEN 0
    ELSE SumSquares(x_1, x_2, n - 1) + (x_1[n] - x_2[n]) * (x_1[n] - x_2[n])

\* mean_squared_error that averages over n - 1.
MeanSquaredErrorUnbiased(x_1, x_2) ==
    IF Len(x_1) # Len(x_2) THEN Raise("ValueError")
    ELSE IF Len(x_1) - 1 = 0 THEN Raise("ZeroDivisionError")
    ELSE Return([num |-> SumSquares(x_1, x_2, Len(x_1)), den |-> Len(x_1) - 1])

\* mean_squared_error(x_1, x_2). The quotient sum / n is kept as the fraction
\* num / den; dividing by n = 0 raises.
MeanSquaredError(x_1, x_2) ==
    IF Len(x_1) # Len(x_2) THEN Raise("ValueError")
    ELSE LET n == Len(x_1)
             total == SumSquares(x_1, x_2, n) IN
         IF n = 0 THEN Raise("ZeroDivisionError")
         ELSE Return([num |-> total, den |-> n])

\* model >= target_level, elementwise.
AtOrAbove(model, target_level) == [i \in 1..Len(model) |-> model[i] >= target_level]

\* np.argmax of a boolean array: the 0-based index of the first occurrence of
\* its largest value; an empty array raises.
ArgMax(b) ==
    IF Len(b) = 0 THEN Raise("ValueError")
    ELSE LET top == \E i \in 1..Len(b) : b[i]
             hits == {i \in 1..Len(b) : b[i] = top} IN
         Return((CHOOSE i \in hits : \A j \in hits : i <= j) - 1)

\* expected_time_to_target comparing with > instead of >=.
ExpectedTimeToTargetStrict(data, model, starting_point, target_level, max_periods) ==
    ArgMax([i \in 1..Len(model) |-> model[i] > target_level])

\* expected_time_to_target(data, model, starting_point, target_level, max_periods):
\* np.argmax(model >= target_level); the other three arguments are not read.
ExpectedTimeToTarget(data, model, starting_point, target_level, max_periods) ==
    ArgMax(AtOrAbove(model, target_level))

\* The calls: the function and its arguments are drawn first, then it is applied.
MseCalls == [fn : {"mean_squared_error"}, x_1 : Seqs, x_2 : Seqs]
EttCalls == [fn : {"expected_time_to_target"}, data : {<<>>, <<1>>}, model : Seqs,
             starting_point : {1}, target_level : ElemVals, max_periods : {0, 2}]

UtilInit ==
    /\ fop = "pending"
    /\ fargs \in MseCalls \cup EttCalls
    /\ fret = NoCall

CallMeanSquaredError ==
    /\ fop = "pending"
    /\ fargs.fn = "mean_squared_error"
    /\ fret' = MeanSquaredError(fargs.x_1, fargs.x_2)
    /\ fop' = "done"
    /\ UNCHANGED fargs

CallExpectedTimeToTarget ==
    /\ fop = "pending"
    /\ fargs.fn = "expected_time_to_target"
    /\ fret' = ExpectedTimeToTarget(fargs.data, fargs.model, fargs.starting_point,
                                    fargs.target_level, fargs.max_periods)
    /\ fop' = "done"
    /\ UNCHANGED fargs

\* --------------------------------------------------------------------------
\* Specifications: one per component, the other components at rest
\* --------------------------------------------------------------------------
ModelRest ==
    /\ cls = "Base" /\ hasExact = FALSE /\ simMethod = "Milstein"
    /\ params = NoneRef /\ positive = FALSE
    /\ heap = [r \in Refs |-> <<>>] /\ op = "init" /\ ret = NoCall
MinRest ==
    /\ mz = NewScipyMinimizer("trust-constr", "5e-03", <<>>)
    /\ zop = NoArgs /\ zres = NoCall /\ zret = NoCall /\ ncalls = 0
    /\ seen = [args |-> NoArgs, ret |-> NoCall]
UtilRest ==
    /\ fop = "none" /\ fargs = <<>> /\ fret = NoCall

Init == ModelInit /\ MinRest /\ UtilRest
Next ==
    \/ SetParams /\ UNCHANGED <<zvars, fvars>>
    \/ GetParams /\ UNCHANGED <<zvars, fvars>>
    \/ GetIsPositive /\ UNCHANGED <<zvars, fvars>>
    \/ GetHasExactDensity /\ UNCHANGED <<zvars, fvars>>
    \/ GetDefaultSimMethod /\ UNCHANGED <<zvars, fvars>>
    \/ CallDrift /\ UNCHANGED <<zvars, fvars>>
    \/ CallDiffusion /\ UNCHANGED <<zvars, fvars>>
    \/ CallExactDensity /\ UNCHANGED <<zvars, fvars>>
    \/ CallExactStep /\ UNCHANGED <<zvars, fvars>>
    \/ CallDriftX /\ UNCHANGED <<zvars, fvars>>
    \/ CallDriftT /\ UNCHANGED <<zvars, fvars>>
    \/ CallDriftXX /\ UNCHANGED <<zvars, fvars>>
    \/ CallDiffusionX /\ UNCHANGED <<zvars, fvars>>
    \/ CallDiffusionXX /\ UNCHANGED <<zvars, fvars>>
    \/ CallerWrite /\ UNCHANGED <<zvars, fvars>>
Spec == Init /\ [][Next]_vars

InitMin == ModelRest /\ MinInit /\ UtilRest
NextMin == CallMinimize /\ UNCHANGED <<mvars, fvars>>
SpecMin == InitMin /\ [][NextMin]_vars

InitUtil == ModelRest /\ MinRest /\ UtilInit
NextUtil ==
    \/ CallMeanSquaredError /\ UNCHANGED <<mvars, zvars>>
    \/ CallExpectedTimeToTarget /\ UNCHANGED <<mvars, zvars>>
SpecUtil == InitUtil /\ [][NextUtil]_vars

\* --------------------------------------------------------------------------
\* Properties
\* --------------------------------------------------------------------------

\* C1: right after an assignment to params that went through, is_positive is
\* the class's positivity predicate applied to the vector just assigned, not a
\* value left from an earlier vector; for a class that does not override the
\* predicate it is false.
C1_FlagTracksAssignedVector ==
    (op = "params.setter" /\ ret.kind = "return") =>
        /\ params # NoneRef
        /\ SetIsPositive(cls, heap[params]).kind = "return"
        /\ positive = SetIsPositive(cls, heap[params]).val
        /\ (cls = "Base" => positive = FALSE)

C1_Witness ==
    /\ op = "params.setter" /\ ret.kind = "return"
    /\ cls = "Sub" /\ positive = TRUE

\* C2: on a CIR instance is_positive is true in every reachable state.
C2_CIRAlwaysPositive == cls = "CIR" => positive = TRUE

\* C3: on a model whose has_exact_density is false every call of exact_density
\* raises NotImplementedError, whatever the arguments and the state.
C3_NoDensityRaises ==
    (op = "exact_density" /\ ~hasExact) =>
        (ret.kind = "raise" /\ ret.val = "NotImplementedError")

C3_Witness ==
    /\ op = "exact_density" /\ ~hasExact
    /\ cls = "Sub" /\ params # NoneRef /\ Len(heap[params]) = NParams

\* C4: a step that changes is_positive is an assignment to params; no other
\* operation, and no write of the caller into an array, changes it.
C4_OnlySetterChangesFlag ==
    [][positive' # positive => op' = "params.setter"]_vars

\* The caller has rewritten the stored array into one the predicate rejects,
\* and the flag is still the one computed at the assignment.
C4_Witness ==
    /\ op = "caller_write" /\ cls = "Sub"
    /\ params # NoneRef /\ positive = TRUE
    /\ SetIsPositive(cls, heap[params]) = Return(FALSE)

\* The value a read of params yields.
StoredVector ==
    [assigned |-> params # NoneRef,
     value |-> IF params = NoneRef THEN <<>> ELSE heap[params]]

\* C5: the value read through params changes only by an assignment through the
\* params setter, whatever the caller does with the arrays it passed or got.
C5_VectorChangesOnlyBySetter ==
    [][StoredVector' # StoredVector => op' = "params.setter"]_vars

\* C6: a call of minimize invokes the routine exactly once, and what the routine
\* answers (converged or not) comes back as the Result: success, message, params
\* and value are the routine's success, message, x and fun.
C6_ResultReportsRoutine ==
    ncalls > 0 =>
        /\ ncalls = 1
        /\ zres.kind = "return" =>
            /\ zret.kind = "return"
            /\ zret.val.success = zres.val.success
            /\ zret.val.message = zres.val.message
            /\ zret.val.params = zres.val.x
            /\ zret.val.value = zres.val.fun

\* The routine did not converge, and minimize returned a Result saying so.
C6_Witness ==
    /\ ncalls = 1 /\ zres.kind = "return" /\ ~zres.val.success
    /\ zret.kind = "return" /\ ~zret.val.success
    /\ Len(zret.val.params) = 1

\* C7: a call of minimize leaves method, tolerance and options as they are, and
\* its outcome is the outcome of any earlier call with the same arguments.
C7_MinimizeStateless ==
    [][/\ mz' = mz
       /\ (seen'.ret.kind # "none" /\ seen'.args = zop') => zret' = seen'.ret]_vars

\* The same arguments as in a remembered earlier call, after which other calls
\* may have been made; neither converged.
C7_Witness ==
    /\ seen.ret.kind = "return" /\ seen.args = zop
    /\ zret.kind = "return" /\ ~zret.val.success

\* The sum of the squared differences, over the set of indices.
RECURSIVE SquaredDifferences(_, _, _)
SquaredDifferences(a, b, I) ==
    IF I = {} THEN 0
    ELSE LET i == CHOOSE j \in I : TRUE
             d == a[i] - b[i] IN
         d * d + SquaredDifferences(a, b, I \ {i})

\* the returned fraction equals total / n
IsQuotient(out, total, n) ==
    /\ out.kind = "return"
    /\ out.val.den # 0
    /\ out.val.num * n = total * out.val.den

\* C8, as amended: two non-empty sequences of equal length give the sum of the
\* squared differences divided by the length; two empty sequences raise
\* ZeroDivisionError; sequences of different lengths raise ValueError.
C8_MeanSquaredError ==
    (fop = "done" /\ fargs.fn = "mean_squared_error") =>
        LET a == fargs.x_1
            b == fargs.x_2 IN
        IF Len(a) # Len(b)
        THEN fret.kind = "raise" /\ fret.val = "ValueError"
        ELSE IF Len(a) = 0
        THEN fret.kind = "raise" /\ fret.val = "ZeroDivisionError"
        ELSE IsQuotient(fret, SquaredDifferences(a, b, DOMAIN a), Len(a))

\* [1, 2, 3] and [1, 2, 4] give 1/3.
C8_Witness ==
    /\ fop = "done" /\ fargs.fn = "mean_squared_error"
    /\ fargs.x_1 = <<1, 2, 3>> /\ fargs.x_2 = <<1, 2, 4>>
    /\ fret.kind = "return" /\ fret.val = [num |-> 1, den |-> 3]

\* C8 as stated: every pair of sequences of equal length gives the sum of the
\* squared differences divided by the length; different lengths raise ValueError.
C8_AsStated ==
    (fop = "done" /\ fargs.fn = "mean_squared_error") =>
        LET a == fargs.x_1
            b == fargs.x_2 IN
        IF Len(a) # Len(b)
        THEN fret.kind = "raise" /\ fret.val = "ValueError"
        ELSE IsQuotient(fret, SquaredDifferences(a, b, DOMAIN a), Len(a))

\* The indices (0-based) of the model values at or above the target.
Hits(model, target_level) == {i - 1 : i \in {j \in DOMAIN model : model[j] >= target_level}}
FirstHitOrZero(model, target_level) ==
    LET hits == Hits(model, target_level) IN
    IF hits = {} THEN 0 ELSE CHOOSE i \in hits : \A j \in hits : i <= j

\* C9, as amended: on a non-empty model the result is the smallest index whose
\* value is at or above the target, and 0 when there is none; on an empty model
\* the call raises ValueError.
C9_ExpectedTimeToTarget ==
    (fop = "done" /\ fargs.fn = "expected_time_to_target") =>
        IF Len(fargs.model) = 0
        THEN fret.kind = "raise" /\ fret.val = "ValueError"
        ELSE /\ fret.kind = "return"
             /\ fret.val = FirstHitOrZero(fargs.model, fargs.target_level)

\* 0 is returned although no value of a non-empty model reaches the target.
C9_Witness ==
    /\ fop = "done" /\ fargs.fn = "expected_time_to_target"
    /\ Len(fargs.model) = MaxLen
    /\ Hits(fargs.model, fargs.target_level) = {}
    /\ fret.kind = "return" /\ fret.val = 0

\* C9 as stated: the result is the smallest index whose value is at or above the
\* target, and 0 when no model value is.
C9_AsStated ==
    (fop = "done" /\ fargs.fn = "expected_time_to_target") =>
        /\ fret.kind = "return"
        /\ fret.val = FirstHitOrZero(fargs.model, fargs.target_level)

\* C10: an assignment to params during which the positivity predicate raises
\* ends with that exception and leaves the stored vector and is_positive as
\* they were.
C10_FailedAssignmentChangesNothing ==
    [][(op' = "params.setter" /\ ret'.kind = "raise") =>
        /\ params' = params
        /\ positive' = positive
        /\ StoredVector' = StoredVector]_vars

\* The predicate raised on an instance that held a vector and a true flag.
C10_Witness ==
    /\ op = "params.setter" /\ ret.kind = "raise" /\ ret.val = "IndexError"
    /\ params # NoneRef /\ positive = TRUE
====
